---- MODULE Spec2Model ----
(***************************************************************************)
(* Model of the multi-agent pipeline coordinator (src/unnamed/part_000):   *)
(* the message board, the blackboard, the agents' findTrigger functions,   *)
(* the poll loop of runMultiAgentPipeline and the run loop of main.        *)
(* Message content is abstracted to a small set of content values and the  *)
(* createdAt time stamp is left out: no trigger or loop decision reads it. *)
(* SummarizeSpec applies summarizeContent to bounded strings; SimpleSpec   *)
(* is the pipeline and the main loop of src/index.ts.                      *)
(***************************************************************************)
EXTENDS Integers, Sequences, FiniteSets, TLC

\* ---------------------------------------------------------------- bounds
\* Number of calls of runMultiAgentPipeline that main makes in the model.
MaxRuns == 3
\* Number of distinct texts the generation collaborator can return.
NumContents == 2

\* Longest text handed to summarizeContent in the model.
MaxTextLen == 6
\* Largest explicit maxLength handed to summarizeContent in the model.
MaxSummaryLen == 5

\* Longest line main reads from the terminal in the model (the word exit
\* comes on top).
MaxInputLen == 2

\* ------------------------------------------------------ program constants
MAX_GLOBAL_CYCLES == 20
MAX_AGENT_ITERATIONS == 3
IdleThreshold == 3
\* summarizeContent's default for maxLength.
DefaultMaxLength == 200

\* ------------------------------------------------------------------ types
AgentName == {"uiux", "frontend", "backend"}

MessageKind == {"feature-request", "uiux-spec", "frontend-plan", "backend-plan"}

Contents == 1..NumContents

\* The single request text main passes to every run (already trimmed).
FeatureText == 0

\* "undefined" / "null" for a BoardMessage.
NoMsg == [id |-> 0, author |-> "none", kind |-> "none", content |-> 0]

agentsBackendSecond == <<"uiux", "backend", "frontend">>

agentsFrontendFirst == <<"frontend", "uiux", "backend">>

\* The fixed order in which the coordinator polls the agents.
agents == <<"uiux", "frontend", "backend">>

maxIterations == [a \in AgentName |-> MAX_AGENT_ITERATIONS]

\* The kind of message each agent's act creates.
OutputKindCopyPaste(a) ==
  IF a = "uiux" THEN "frontend-plan"
  ELSE IF a = "frontend" THEN "frontend-plan" ELSE "backend-plan"

OutputKindSwapped(a) ==
  IF a = "uiux" THEN "uiux-spec"
  ELSE IF a = "frontend" THEN "backend-plan" ELSE "frontend-plan"

OutputKind(a) ==
  IF a = "uiux" THEN "uiux-spec"
  ELSE IF a = "frontend" THEN "frontend-plan" ELSE "backend-plan"

\* BlackboardState = {} : every field undefined.
EmptyBlackboard ==
  [featureRequest |-> NoMsg, uiuxSpec |-> NoMsg,
   frontendPlan |-> NoMsg, backendPlan |-> NoMsg]

VARIABLES
  pc,          \* position of main / runMultiAgentPipeline
  run,         \* number of calls of runMultiAgentPipeline made so far
  nextId,      \* module-level id counter
  iterations,  \* module-level agents' iteration counts
  board,       \* the run's board
  blackboard,  \* the run's blackboard
  cycle,       \* for-loop variable
  idleCycles,
  progressedThisCycle,
  agentIdx,    \* position of the inner for-of loop in agents (4: past the end)
  inflight,    \* act invocations whose promise is pending: [agent, trigger]
  newMessage,  \* the message the awaited act resolved with
  acts,        \* the act invocations of this run: [agent, trigger, cycle]
  input,       \* src/index.ts: the line main read from the terminal
  text,        \* summarizeContent: argument content
  maxLength,   \* summarizeContent: argument maxLength
  summary      \* summarizeContent: returned string

vars == <<pc, run, nextId, iterations, board, blackboard, cycle, idleCycles,
          progressedThisCycle, agentIdx, inflight, newMessage, acts,
          input, text, maxLength, summary>>

\* The variables the poll loop of runMultiAgentPipeline never touches.
ioVars == <<input, text, maxLength, summary>>

\* ------------------------------------------------------------- functions
NextIdStuck(n) == n

\* nextId++ of createMessage.
NextIdAfter(n) == n + 1

createMessage(author, kind, content) ==
  [id |-> nextId, author |-> author, kind |-> kind, content |-> content]

\* [...board].reverse().find((m) => m.kind === k), NoMsg when there is none.
ReverseFind(b, k) ==
  IF \E i \in 1..Len(b) : b[i].kind = k
  THEN b[CHOOSE i \in 1..Len(b) :
             b[i].kind = k /\ \A j \in (i+1)..Len(b) : b[j].kind # k]
  ELSE NoMsg

\* x ?? y
Coalesce(x, y) == IF x # NoMsg THEN x ELSE y

\* board.find((m) => m.kind === k), NoMsg when there is none.
Find(b, k) ==
  IF \E i \in 1..Len(b) : b[i].kind = k
  THEN b[CHOOSE i \in 1..Len(b) :
             b[i].kind = k /\ \A j \in 1..(i-1) : b[j].kind # k]
  ELSE NoMsg

\* The feature request the frontend and backend acts put in their prompt.
actFeature(b, bb) == Coalesce(bb.featureRequest, Find(b, "feature-request"))

boardUnshift(b, m) == <<m>> \o b

\* board.push(m)
boardPush(b, m) == Append(b, m)

\* board.filter((m) => m.author === a && m.kind === k)
Authored(b, a, k) == SelectSeq(b, LAMBDA m : m.author = a /\ m.kind = k)

uiuxFindTrigger(b, bb, it) ==
  LET feature == Coalesce(bb.featureRequest, ReverseFind(b, "feature-request"))
      mySpecs == Authored(b, "uiux", "uiux-spec")
  IN  IF feature = NoMsg THEN NoMsg
      ELSE IF Len(mySpecs) = 0 THEN feature
      ELSE IF it["uiux"] >= maxIterations["uiux"] THEN NoMsg
      ELSE mySpecs[Len(mySpecs)]

frontendFindTriggerOldestPlan(b, bb, it) ==
  LET uiuxSpec == Coalesce(bb.uiuxSpec, ReverseFind(b, "uiux-spec"))
      myPlans == Authored(b, "frontend", "frontend-plan")
  IN  IF uiuxSpec = NoMsg THEN NoMsg
      ELSE IF Len(myPlans) = 0 THEN uiuxSpec
      ELSE IF it["frontend"] >= maxIterations["frontend"] THEN NoMsg
      ELSE myPlans[1]

frontendFindTriggerFollowsRevision(b, bb, it) ==
  LET uiuxSpec == Coalesce(bb.uiuxSpec, ReverseFind(b, "uiux-spec"))
      myPlans == Authored(b, "frontend", "frontend-plan")
  IN  IF uiuxSpec = NoMsg THEN NoMsg
      ELSE IF Len(myPlans) = 0 THEN uiuxSpec
      ELSE IF it["frontend"] >= maxIterations["frontend"] THEN NoMsg
      ELSE IF uiuxSpec.id > myPlans[Len(myPlans)].id THEN uiuxSpec
      ELSE myPlans[Len(myPlans)]

frontendFindTrigger(b, bb, it) ==
  LET uiuxSpec == Coalesce(bb.uiuxSpec, ReverseFind(b, "uiux-spec"))
      myPlans == Authored(b, "frontend", "frontend-plan")
  IN  IF uiuxSpec = NoMsg THEN NoMsg
      ELSE IF Len(myPlans) = 0 THEN uiuxSpec
      ELSE IF it["frontend"] >= maxIterations["frontend"] THEN NoMsg
      ELSE myPlans[Len(myPlans)]

backendFindTriggerUiuxCount(b, bb, it) ==
  LET uiuxSpec == Coalesce(bb.uiuxSpec, ReverseFind(b, "uiux-spec"))
      myPlans == Authored(b, "backend", "backend-plan")
  IN  IF uiuxSpec = NoMsg THEN NoMsg
      ELSE IF Len(myPlans) = 0 THEN uiuxSpec
      ELSE IF it["uiux"] >= maxIterations["uiux"] THEN NoMsg
      ELSE myPlans[Len(myPlans)]

backendFindTrigger(b, bb, it) ==
  LET uiuxSpec == Coalesce(bb.uiuxSpec, ReverseFind(b, "uiux-spec"))
      myPlans == Authored(b, "backend", "backend-plan")
  IN  IF uiuxSpec = NoMsg THEN NoMsg
      ELSE IF Len(myPlans) = 0 THEN uiuxSpec
      ELSE IF it["backend"] >= maxIterations["backend"] THEN NoMsg
      ELSE myPlans[Len(myPlans)]

\* agent.findTrigger(board, blackboard)
findTrigger(a, b, bb, it) ==
  IF a = "uiux" THEN uiuxFindTrigger(b, bb, it)
  ELSE IF a = "frontend" THEN frontendFindTrigger(b, bb, it)
  ELSE backendFindTrigger(b, bb, it)

IncIterationsForgotten(it, a) == it

\* agent.iterations += 1
IncIterations(it, a) == [it EXCEPT ![a] = @ + 1]

UpdateBlackboardWrongField(bb, m) ==
  IF m.kind = "uiux-spec" THEN [bb EXCEPT !.featureRequest = m]
  ELSE IF m.kind = "frontend-plan" THEN [bb EXCEPT !.frontendPlan = m]
  ELSE IF m.kind = "backend-plan" THEN [bb EXCEPT !.backendPlan = m]
  ELSE bb

UpdateBlackboardNoFrontend(bb, m) ==
  IF m.kind = "uiux-spec" THEN [bb EXCEPT !.uiuxSpec = m]
  ELSE IF m.kind = "backend-plan" THEN [bb EXCEPT !.backendPlan = m]
  ELSE bb

\* The if / else-if chain that stores the new message in the blackboard.
UpdateBlackboard(bb, m) ==
  IF m.kind = "uiux-spec" THEN [bb EXCEPT !.uiuxSpec = m]
  ELSE IF m.kind = "frontend-plan" THEN [bb EXCEPT !.frontendPlan = m]
  ELSE IF m.kind = "backend-plan" THEN [bb EXCEPT !.backendPlan = m]
  ELSE bb

NextIdleAlwaysCount(progressed, idle) == idle + 1

\* idleCycles after the end-of-cycle bookkeeping.
NextIdle(progressed, idle) == IF ~progressed THEN idle + 1 ELSE 0

IdleStopLate(progressed, idle) == ~progressed /\ idle > IdleThreshold

IdleStopNever(progressed, idle) == FALSE

\* The break: the cycle made no progress and idleCycles (already
\* incremented) has reached the threshold.
IdleStop(progressed, idle) == ~progressed /\ idle >= IdleThreshold

AfterActCallNoAwait == "agent"

\* The coordinator suspends on "await agent.act(...)".
AfterActCall == "await"

AfterActFailureIsolated == "skip"

\* A rejected act is not caught in the loop: the run's promise rejects.
AfterActFailure == "aborted"

\* ------------------------------------------------------------------ Init
Init ==
  /\ pc = "main"
  /\ run = 0
  /\ nextId = 1
  /\ iterations = [a \in AgentName |-> 0]
  /\ board = <<>>
  /\ blackboard = EmptyBlackboard
  /\ cycle = 0
  /\ idleCycles = 0
  /\ progressedThisCycle = FALSE
  /\ agentIdx = 0
  /\ inflight = {}
  /\ newMessage = NoMsg
  /\ acts = <<>>
  /\ input = <<>>
  /\ text = <<>>
  /\ maxLength = DefaultMaxLength
  /\ summary = <<>>

\* --------------------------------------------------------------- actions
\* main's loop body calls runMultiAgentPipeline, which creates the board
\* and the blackboard, seeds them with the feature request and enters the
\* for loop with cycle = 1.
StartRun ==
  /\ pc = "main"
  /\ run < MaxRuns
  /\ LET featureMessage == createMessage("user", "feature-request", FeatureText)
     IN  /\ board' = <<featureMessage>>
         /\ blackboard' = [EmptyBlackboard EXCEPT !.featureRequest = featureMessage]
  /\ nextId' = NextIdAfter(nextId)
  /\ run' = run + 1
  /\ idleCycles' = 0
  /\ cycle' = 1
  /\ acts' = <<>>
  /\ pc' = "for_test"
  /\ UNCHANGED <<iterations, progressedThisCycle, agentIdx, inflight, newMessage>>
  /\ UNCHANGED ioVars

\* The for loop's test and the start of a cycle.
CycleBegin ==
  /\ pc = "for_test"
  /\ IF cycle <= MAX_GLOBAL_CYCLES
     THEN /\ progressedThisCycle' = FALSE
          /\ agentIdx' = 1
          /\ pc' = "agent"
     ELSE /\ pc' = "stopped"
          /\ UNCHANGED <<progressedThisCycle, agentIdx>>
  /\ UNCHANGED <<run, nextId, iterations, board, blackboard, cycle, idleCycles,
                 inflight, newMessage, acts>>
  /\ UNCHANGED ioVars

\* The agent has no trigger or has used up its iterations: continue.
AgentSkip ==
  /\ pc = "agent"
  /\ agentIdx \in 1..Len(agents)
  /\ LET a == agents[agentIdx]
         trigger == findTrigger(a, board, blackboard, iterations)
     IN  trigger = NoMsg \/ iterations[a] >= maxIterations[a]
  /\ agentIdx' = agentIdx + 1
  /\ UNCHANGED <<pc, run, nextId, iterations, board, blackboard, cycle,
                 idleCycles, progressedThisCycle, inflight, newMessage, acts>>
  /\ UNCHANGED ioVars

\* The agent has a trigger and iterations left: count the iteration, mark
\* the cycle as progressed and call act.
ActStart ==
  /\ pc = "agent"
  /\ agentIdx \in 1..Len(agents)
  /\ LET a == agents[agentIdx]
         trigger == findTrigger(a, board, blackboard, iterations)
     IN  /\ trigger # NoMsg
         /\ ~(iterations[a] >= maxIterations[a])
         /\ iterations' = IncIterations(iterations, a)
         /\ inflight' = inflight \cup {[agent |-> a, trigger |-> trigger.id]}
         /\ acts' = Append(acts, [agent |-> a, trigger |-> trigger.id, cycle |-> cycle])
  /\ progressedThisCycle' = TRUE
  /\ pc' = AfterActCall
  /\ UNCHANGED <<run, nextId, board, blackboard, cycle, idleCycles, agentIdx,
                 newMessage>>
  /\ UNCHANGED ioVars

\* The generation finishes; act creates its message and resolves.
ActComplete ==
  /\ pc = "await"
  /\ \E call \in inflight, content \in Contents :
       /\ newMessage' = createMessage(call.agent, OutputKind(call.agent), content)
       /\ inflight' = inflight \ {call}
  /\ nextId' = NextIdAfter(nextId)
  /\ pc' = "push"
  /\ UNCHANGED <<run, iterations, board, blackboard, cycle, idleCycles,
                 progressedThisCycle, agentIdx, acts>>
  /\ UNCHANGED ioVars

\* The generation collaborator errors: act rejects.
ActFail ==
  /\ pc = "await"
  /\ \E call \in inflight : inflight' = inflight \ {call}
  /\ IF AfterActFailure = "aborted"
     THEN pc' = "aborted" /\ agentIdx' = agentIdx
     ELSE pc' = "agent" /\ agentIdx' = agentIdx + 1
  /\ UNCHANGED <<run, nextId, iterations, board, blackboard, cycle, idleCycles,
                 progressedThisCycle, newMessage, acts>>
  /\ UNCHANGED ioVars

\* board.push(newMessage)
Push ==
  /\ pc = "push"
  /\ board' = boardPush(board, newMessage)
  /\ pc' = "update"
  /\ UNCHANGED <<run, nextId, iterations, blackboard, cycle, idleCycles,
                 progressedThisCycle, agentIdx, inflight, newMessage, acts>>
  /\ UNCHANGED ioVars

\* The blackboard update, then on to the next agent.
Update ==
  /\ pc = "update"
  /\ blackboard' = UpdateBlackboard(blackboard, newMessage)
  /\ newMessage' = NoMsg
  /\ agentIdx' = agentIdx + 1
  /\ pc' = "agent"
  /\ UNCHANGED <<run, nextId, iterations, board, cycle, idleCycles,
                 progressedThisCycle, inflight, acts>>
  /\ UNCHANGED ioVars

\* All agents polled: idle bookkeeping, break or go to sleep.
CycleEnd ==
  /\ pc = "agent"
  /\ agentIdx = Len(agents) + 1
  /\ idleCycles' = NextIdle(progressedThisCycle, idleCycles)
  /\ pc' = IF IdleStop(progressedThisCycle, idleCycles') THEN "stopped" ELSE "sleep"
  /\ UNCHANGED <<run, nextId, iterations, board, blackboard, cycle,
                 progressedThisCycle, agentIdx, inflight, newMessage, acts>>
  /\ UNCHANGED ioVars

\* The poll interval elapses; cycle++.
Sleep ==
  /\ pc = "sleep"
  /\ cycle' = cycle + 1
  /\ pc' = "for_test"
  /\ UNCHANGED <<run, nextId, iterations, board, blackboard, idleCycles,
                 progressedThisCycle, agentIdx, inflight, newMessage, acts>>
  /\ UNCHANGED ioVars

\* The summaries are printed and runMultiAgentPipeline returns to main;
\* its board and blackboard go out of scope.
RunReturn ==
  /\ pc = "stopped"
  /\ board' = <<>>
  /\ blackboard' = EmptyBlackboard
  /\ pc' = "main"
  /\ UNCHANGED <<run, nextId, iterations, cycle, idleCycles,
                 progressedThisCycle, agentIdx, inflight, newMessage, acts>>
  /\ UNCHANGED ioVars

Next ==
  \/ StartRun
  \/ CycleBegin
  \/ AgentSkip
  \/ ActStart
  \/ ActComplete
  \/ ActFail
  \/ Push
  \/ Update
  \/ CycleEnd
  \/ Sleep
  \/ RunReturn

Spec == Init /\ [][Next]_vars

\* ------------------------------------------------------------- strings
\* Strings are sequences of characters over a small alphabet.
Chars == {"a", "b", " ", "\n"}

\* White space, as String.prototype.trim sees it.
IsSpace(c) == c \in {" ", "\n"}

MinOf(S) == CHOOSE x \in S : \A y \in S : x <= y

MaxOf(S) == CHOOSE x \in S : \A y \in S : y <= x

\* s.trim()
Trim(s) ==
  LET nonSpace == {i \in 1..Len(s) : ~IsSpace(s[i])}
  IN  IF nonSpace = {} THEN <<>>
      ELSE SubSeq(s, MinOf(nonSpace), MaxOf(nonSpace))

\* s.split('\n')
RECURSIVE Split(_)
Split(s) ==
  LET newlines == {i \in 1..Len(s) : s[i] = "\n"}
  IN  IF newlines = {} THEN <<s>>
      ELSE <<SubSeq(s, 1, MinOf(newlines) - 1)>>
             \o Split(SubSeq(s, MinOf(newlines) + 1, Len(s)))

\* lines.find((line) => line.trim().length > 0) ?? ''
FirstNonBlank(lines) ==
  LET nonBlank == {i \in 1..Len(lines) : Len(Trim(lines[i])) > 0}
  IN  IF nonBlank = {} THEN <<>> ELSE lines[MinOf(nonBlank)]

\* s.slice(start, end): negative indices count from the end, indices are
\* clamped to 0..length, an empty range gives ''.
Slice(s, start, end) ==
  LET norm(i) == IF i < 0 THEN (IF Len(s) + i < 0 THEN 0 ELSE Len(s) + i)
                 ELSE (IF i > Len(s) THEN Len(s) ELSE i)
  IN  SubSeq(s, norm(start) + 1, norm(end))

Ellipsis == <<".", ".", ".">>

summarizeContentKeepsTwo(c, maxLen) ==
  LET firstLine == FirstNonBlank(Split(c))
      trimmed == Trim(firstLine)
  IN  IF Len(trimmed) <= maxLen THEN trimmed
      ELSE Slice(trimmed, 0, maxLen - 2) \o Ellipsis

summarizeContent(c, maxLen) ==
  LET firstLine == FirstNonBlank(Split(c))
      trimmed == Trim(firstLine)
  IN  IF Len(trimmed) <= maxLen THEN trimmed
      ELSE Slice(trimmed, 0, maxLen - 3) \o Ellipsis

\* ------------------------------------- summarizeContent on its own
Texts == UNION {[1..n -> Chars] : n \in 0..MaxTextLen}

MaxLengths == (0..MaxSummaryLen) \cup {DefaultMaxLength}

SummarizeInit ==
  /\ pc = "summarize"
  /\ text \in Texts
  /\ maxLength \in MaxLengths
  /\ summary = <<>>
  /\ input = <<>>
  /\ run = 0
  /\ nextId = 1
  /\ iterations = [a \in AgentName |-> 0]
  /\ board = <<>>
  /\ blackboard = EmptyBlackboard
  /\ cycle = 0
  /\ idleCycles = 0
  /\ progressedThisCycle = FALSE
  /\ agentIdx = 0
  /\ inflight = {}
  /\ newMessage = NoMsg
  /\ acts = <<>>

\* One call summarizeContent(text, maxLength).
Summarize ==
  /\ pc = "summarize"
  /\ summary' = summarizeContent(text, maxLength)
  /\ pc' = "summarized"
  /\ UNCHANGED <<run, nextId, iterations, board, blackboard, cycle, idleCycles,
                 progressedThisCycle, agentIdx, inflight, newMessage, acts,
                 input, text, maxLength>>

SummarizeNext == Summarize

SummarizeSpec == SummarizeInit /\ [][SummarizeNext]_vars

\* ------------------------------------------ the pipeline of src/index.ts
\* The lines the operator can type: short lines of blanks and letters, and
\* the sentinel in two spellings.
Inputs ==
  UNION {[1..n -> {" ", "a"}] : n \in 0..MaxInputLen}
    \cup {<<"e", "x", "i", "t">>, <<" ", "E", "x", "i", "T", " ">>}

\* s.toLowerCase()
ToLowerCase(s) ==
  [i \in 1..Len(s) |->
     IF s[i] = "E" THEN "e" ELSE IF s[i] = "X" THEN "x"
     ELSE IF s[i] = "I" THEN "i" ELSE IF s[i] = "T" THEN "t"
     ELSE IF s[i] = "A" THEN "a" ELSE s[i]]

isEmptyRequestUntrimmed(inp) == inp = <<>>

\* const trimmed = input.trim(); if (!trimmed) continue;
isEmptyRequest(inp) == Trim(inp) = <<>>

\* trimmed.toLowerCase() === 'exit'
isExit(inp) == ToLowerCase(Trim(inp)) = <<"e", "x", "i", "t">>

\* board.some((m) => m.kind === k)
Some(b, k) == \E i \in 1..Len(b) : b[i].kind = k

simpleUiuxFindTriggerNoGuard(b) == ReverseFind(b, "feature-request")

simpleUiuxFindTrigger(b) ==
  IF Some(b, "uiux-spec") THEN NoMsg ELSE ReverseFind(b, "feature-request")

simpleFrontendFindTrigger(b) ==
  IF Some(b, "frontend-plan") THEN NoMsg ELSE ReverseFind(b, "uiux-spec")

simpleBackendFindTrigger(b) ==
  IF Some(b, "backend-plan") THEN NoMsg ELSE ReverseFind(b, "uiux-spec")

\* agent.findTrigger(board)
simpleFindTrigger(a, b) ==
  IF a = "uiux" THEN simpleUiuxFindTrigger(b)
  ELSE IF a = "frontend" THEN simpleFrontendFindTrigger(b)
  ELSE simpleBackendFindTrigger(b)

\* main reads a line that is empty after trimming: continue.
SimpleEmptyInput ==
  /\ pc = "main"
  /\ \E inp \in Inputs :
       /\ isEmptyRequest(inp)
       /\ input' = inp
  /\ UNCHANGED <<pc, run, nextId, iterations, board, blackboard, cycle,
                 idleCycles, progressedThisCycle, agentIdx, inflight,
                 newMessage, acts, text, maxLength, summary>>

\* main reads the sentinel: break, terminal.close().
SimpleExit ==
  /\ pc = "main"
  /\ \E inp \in Inputs :
       /\ ~isEmptyRequest(inp)
       /\ isExit(inp)
       /\ input' = inp
  /\ pc' = "exit"
  /\ UNCHANGED <<run, nextId, iterations, board, blackboard, cycle,
                 idleCycles, progressedThisCycle, agentIdx, inflight,
                 newMessage, acts, text, maxLength, summary>>

\* main reads a request and calls runMultiAgentPipeline(trimmed), which
\* creates the board and seeds it; progressed = true.
SimpleStartRun ==
  /\ pc = "main"
  /\ run < MaxRuns
  /\ \E inp \in Inputs :
       /\ ~isEmptyRequest(inp)
       /\ ~isExit(inp)
       /\ input' = inp
       /\ board' = <<createMessage("user", "feature-request", Trim(Trim(inp)))>>
  /\ nextId' = NextIdAfter(nextId)
  /\ run' = run + 1
  /\ progressedThisCycle' = TRUE
  /\ cycle' = 0
  /\ acts' = <<>>
  /\ pc' = "while_test"
  /\ UNCHANGED <<iterations, blackboard, idleCycles, agentIdx, inflight,
                 newMessage, text, maxLength, summary>>

\* while (progressed) { progressed = false; ...  (cycle counts the passes)
SimpleWhileTest ==
  /\ pc = "while_test"
  /\ IF progressedThisCycle
     THEN /\ progressedThisCycle' = FALSE
          /\ agentIdx' = 1
          /\ cycle' = cycle + 1
          /\ pc' = "agent"
     ELSE /\ pc' = "stopped"
          /\ UNCHANGED <<progressedThisCycle, agentIdx, cycle>>
  /\ UNCHANGED <<run, nextId, iterations, board, blackboard, idleCycles,
                 inflight, newMessage, acts, input, text, maxLength, summary>>

\* No trigger: continue.
SimpleAgentSkip ==
  /\ pc = "agent"
  /\ agentIdx \in 1..Len(agents)
  /\ simpleFindTrigger(agents[agentIdx], board) = NoMsg
  /\ agentIdx' = agentIdx + 1
  /\ UNCHANGED <<pc, run, nextId, iterations, board, blackboard, cycle,
                 idleCycles, progressedThisCycle, inflight, newMessage, acts,
                 input, text, maxLength, summary>>

\* A trigger: progressed = true and act is called.
SimpleActStart ==
  /\ pc = "agent"
  /\ agentIdx \in 1..Len(agents)
  /\ LET a == agents[agentIdx]
         trigger == simpleFindTrigger(a, board)
     IN  /\ trigger # NoMsg
         /\ inflight' = inflight \cup {[agent |-> a, trigger |-> trigger.id]}
         /\ acts' = Append(acts, [agent |-> a, trigger |-> trigger.id, cycle |-> cycle])
  /\ progressedThisCycle' = TRUE
  /\ pc' = "await"
  /\ UNCHANGED <<run, nextId, iterations, board, blackboard, cycle,
                 idleCycles, agentIdx, newMessage, input, text, maxLength,
                 summary>>

\* The generation finishes; act creates its message and resolves.
SimpleActComplete ==
  /\ pc = "await"
  /\ \E call \in inflight, c \in Contents :
       /\ newMessage' = createMessage(call.agent, OutputKind(call.agent), c)
       /\ inflight' = inflight \ {call}
  /\ nextId' = NextIdAfter(nextId)
  /\ pc' = "push"
  /\ UNCHANGED <<run, iterations, board, blackboard, cycle, idleCycles,
                 progressedThisCycle, agentIdx, acts, input, text, maxLength,
                 summary>>

\* The generation collaborator errors: act rejects and the run with it.
SimpleActFail ==
  /\ pc = "await"
  /\ \E call \in inflight : inflight' = inflight \ {call}
  /\ pc' = "aborted"
  /\ UNCHANGED <<run, nextId, iterations, board, blackboard, cycle,
                 idleCycles, progressedThisCycle, agentIdx, newMessage, acts,
                 input, text, maxLength, summary>>

\* board.push(newMessage), then on to the next agent.
SimplePush ==
  /\ pc = "push"
  /\ board' = boardPush(board, newMessage)
  /\ newMessage' = NoMsg
  /\ agentIdx' = agentIdx + 1
  /\ pc' = "agent"
  /\ UNCHANGED <<run, nextId, iterations, blackboard, cycle, idleCycles,
                 progressedThisCycle, inflight, acts, input, text, maxLength,
                 summary>>

\* All agents polled: back to the while test.
SimplePassEnd ==
  /\ pc = "agent"
  /\ agentIdx = Len(agents) + 1
  /\ pc' = "while_test"
  /\ UNCHANGED <<run, nextId, iterations, board, blackboard, cycle,
                 idleCycles, progressedThisCycle, agentIdx, inflight,
                 newMessage, acts, input, text, maxLength, summary>>

\* The board is printed and runMultiAgentPipeline returns to main.
SimpleRunReturn ==
  /\ pc = "stopped"
  /\ board' = <<>>
  /\ pc' = "main"
  /\ UNCHANGED <<run, nextId, iterations, blackboard, cycle, idleCycles,
                 progressedThisCycle, agentIdx, inflight, newMessage, acts,
                 input, text, maxLength, summary>>

SimpleNext ==
  \/ SimpleEmptyInput
  \/ SimpleExit
  \/ SimpleStartRun
  \/ SimpleWhileTest
  \/ SimpleAgentSkip
  \/ SimpleActStart
  \/ SimpleActComplete
  \/ SimpleActFail
  \/ SimplePush
  \/ SimplePassEnd
  \/ SimpleRunReturn

SimpleSpec == Init /\ [][SimpleNext]_vars

\* ------------------------------------------------------ derived notions
\* The kind stored in each blackboard field.
KindOfField ==
  [featureRequest |-> "feature-request", uiuxSpec |-> "uiux-spec",
   frontendPlan |-> "frontend-plan", backendPlan |-> "backend-plan"]

BoardMessages == {board[i] : i \in 1..Len(board)}

\* The highest-id message of kind k in the board, NoMsg when there is none.
HighestOfKind(k) ==
  LET ofKind == {m \in BoardMessages : m.kind = k}
  IN  IF ofKind = {} THEN NoMsg
      ELSE CHOOSE m \in ofKind : \A o \in ofKind : o.id <= m.id

BlackboardConsistent ==
  \A f \in DOMAIN KindOfField : blackboard[f] = HighestOfKind(KindOfField[f])

AuthoredBy(a) == SelectSeq(board, LAMBDA m : m.author = a)

\* Some agent acted in cycle c of the current run.
ActedIn(c) == \E i \in 1..Len(acts) : acts[i].cycle = c

\* Number of most recent consecutive cycles (up to the current one) in
\* which no agent acted.
TrailingIdle ==
  Cardinality({k \in 1..cycle : \A c \in (cycle - k + 1)..cycle : ~ActedIn(c)})

\* The coordinator is inside the for loop's body or between two cycles.
InCycle == pc \in {"agent", "await", "push", "update", "sleep"}

\* The end-of-cycle bookkeeping of the current cycle has been done.
CycleClosed == pc \in {"sleep", "stopped"}

\* ----------------------------------------------------------------- claims

\* C1: a run never executes more than MAX_GLOBAL_CYCLES (20) cycles; after
\* each cycle's bookkeeping idleCycles is the number of most recent
\* consecutive cycles in which no agent acted (so a cycle with an act
\* leaves it at 0), and the run has stopped exactly when that number has
\* reached 3.
C1_Termination ==
  /\ (InCycle \/ pc = "stopped") => cycle \in 1..MAX_GLOBAL_CYCLES
  /\ CycleClosed =>
       /\ idleCycles = TrailingIdle
       /\ (pc = "stopped") <=> (idleCycles = 3)
       /\ ActedIn(cycle) => idleCycles = 0

C1_Witness ==
  pc = "stopped" /\ idleCycles = 3 /\ Len(acts) > 0 /\ cycle < MAX_GLOBAL_CYCLES

\* C2: the board never holds more messages authored by an agent than that
\* agent's maxIterations.
C2_IterationBound ==
  \A a \in AgentName : Len(AuthoredBy(a)) <= maxIterations[a]

C2_Witness ==
  \E a \in AgentName : Len(AuthoredBy(a)) = maxIterations[a]

\* C3: whenever a trigger is about to be evaluated and at every cycle
\* boundary, each blackboard field is the highest-id board message of its
\* kind, and is undefined exactly when the board has no message of that
\* kind; a defined field is a message of the board.
C3_IndexConsistency ==
  pc \in {"for_test", "agent", "sleep", "stopped"} =>
    /\ BlackboardConsistent
    /\ \A f \in DOMAIN KindOfField :
         /\ blackboard[f] = NoMsg <=>
              ~\E m \in BoardMessages : m.kind = KindOfField[f]
         /\ blackboard[f] # NoMsg => blackboard[f] \in BoardMessages

C3_Witness ==
  /\ pc = "agent"
  /\ Len(Authored(board, "frontend", "frontend-plan")) >= 2
  /\ blackboard.frontendPlan = board[Len(board) - 1]

\* C4: every step that appends a frontend-plan or a backend-plan finds a
\* uiux-spec with a smaller id already in the board, and every step that
\* appends a uiux-spec finds a feature-request already in the board.
C4_DependencyOrdering ==
  [][ Len(board') = Len(board) + 1 =>
        LET m == board'[Len(board')]
        IN  /\ m.kind \in {"frontend-plan", "backend-plan"} =>
                 \E i \in 1..Len(board) :
                    board[i].kind = "uiux-spec" /\ board[i].id < m.id
            /\ m.kind = "uiux-spec" =>
                 \E i \in 1..Len(board) : board[i].kind = "feature-request"
    ]_vars

C4_Witness ==
  /\ \E i \in 1..Len(board) : board[i].kind = "frontend-plan"
  /\ \E i \in 1..Len(board) : board[i].kind = "backend-plan"

\* C5: in the process's first run (every iteration count starts at 0), when
\* cycle 1 has polled all agents the board is exactly feature-request,
\* uiux-spec, frontend-plan, backend-plan; the uiux act was triggered by
\* the feature request and both plans by the uiux-spec of that same cycle.
C5_SameCycleCascade ==
  (run = 1 /\ cycle = 1 /\ (CycleClosed \/ (pc = "agent" /\ agentIdx = 4))) =>
    /\ Len(board) = 4
    /\ [i \in 1..4 |-> board[i].kind] =
         <<"feature-request", "uiux-spec", "frontend-plan", "backend-plan">>
    /\ [i \in 1..4 |-> board[i].author] = <<"user", "uiux", "frontend", "backend">>
    /\ acts = << [agent |-> "uiux", trigger |-> board[1].id, cycle |-> 1],
                 [agent |-> "frontend", trigger |-> board[2].id, cycle |-> 1],
                 [agent |-> "backend", trigger |-> board[2].id, cycle |-> 1] >>

C5_Witness ==
  run = 1 /\ cycle = 1 /\ pc = "sleep" /\ Len(board) = 4

\* C6: when the process's first run (iteration counts start at 0, budget 3)
\* reaches its stopping condition, the board is the feature request plus
\* exactly 3 messages of each agent, and the run stopped by the idle stop
\* with idleCycles = 3, the 3 idle cycles directly following the last
\* cycle with an act, before cycle 20.
C6_IdleStopScenario ==
  (run = 1 /\ pc = "stopped") =>
    /\ Len(board) = 10
    /\ board[1].kind = "feature-request"
    /\ \A a \in AgentName : Len(AuthoredBy(a)) = 3
    /\ idleCycles = 3
    /\ Len(acts) = 9
    /\ acts[Len(acts)].cycle = cycle - 3
    /\ \A c \in (cycle - 2)..cycle : ~ActedIn(c)
    /\ cycle < MAX_GLOBAL_CYCLES

C6_Witness ==
  run = 1 /\ pc = "stopped" /\ Len(board) = 10

\* C7: the ids of the board's messages, in board order, are strictly
\* increasing (hence distinct), in every run of the process.
C7_MonotonicIds ==
  /\ \A i, j \in 1..Len(board) : i < j => board[i].id < board[j].id
  /\ \A i \in 1..Len(board) : board[i].id < nextId

C7_Witness ==
  run = 2 /\ nextId > 11 /\ Len(board) = 1 /\ board[1].id = 11

\* C8: every run starts with every agent's iteration count at 0, and no
\* step decreases a count.
C8_CountsZeroAtRunStart ==
  [][ /\ (pc = "main" /\ pc' = "for_test") =>
           \A a \in AgentName : iterations'[a] = 0
      /\ \A a \in AgentName : iterations'[a] >= iterations[a]
    ]_vars

\* C9: at most one act is in flight, and only while the coordinator is
\* suspended on it; when the coordinator evaluates a trigger no act is in
\* flight, no resolved message is waiting to be appended, every act called
\* so far has its message in the board, and the blackboard is up to date.
C9_SingleActInFlight ==
  /\ Cardinality(inflight) <= 1
  /\ inflight # {} => pc = "await"
  /\ pc = "agent" =>
       /\ inflight = {}
       /\ newMessage = NoMsg
       /\ Len(board) = 1 + Len(acts)
       /\ BlackboardConsistent

C9_Witness ==
  /\ pc = "await"
  /\ \E call \in inflight : call.agent = "backend"
  /\ Len(board) >= 3

\* C10: the step in which an act fails appends nothing, leaves the
\* blackboard alone and aborts the run; once aborted, nothing changes any
\* more: no agent is polled, no cycle starts and no run follows.
C10_FailureAborts ==
  [][ /\ (inflight # {} /\ inflight' = {} /\ nextId' = nextId) =>
           (pc' = "aborted" /\ board' = board /\ blackboard' = blackboard)
      /\ pc = "aborted" => UNCHANGED vars
    ]_vars

C10_Witness ==
  pc = "aborted" /\ agentIdx = 2 /\ Len(board) = 2 /\ Len(acts) = 2

\* The coordinator is between two agent turns of the current run: no act
\* is pending and no resolved message waits to be appended or indexed.
BetweenTurns == pc \in {"for_test", "agent", "sleep", "stopped", "aborted"}

\* C13: in the process's first run (counts start at 0), at every point
\* between agent turns, also after a failed act, each agent's iteration
\* count equals the number of messages it has produced.
C13_CountIsProduced ==
  (run = 1 /\ BetweenTurns) =>
     \A a \in AgentName : iterations[a] = Len(AuthoredBy(a))

\* C14: an agent whose iteration count has reached its budget gets no
\* trigger from findTrigger.
C14_ExhaustedNoTrigger ==
  \A a \in AgentName :
    iterations[a] >= maxIterations[a] =>
      findTrigger(a, board, blackboard, iterations) = NoMsg

\* The kind an agent's trigger depends on.
UpstreamKind(a) == IF a = "uiux" THEN "feature-request" ELSE "uiux-spec"

\* The last message of the board satisfying kind k / author a.
LastOfKind(k) ==
  board[CHOOSE i \in 1..Len(board) :
          board[i].kind = k /\ \A j \in (i+1)..Len(board) : board[j].kind # k]

LastOfAuthor(a) ==
  board[CHOOSE i \in 1..Len(board) :
          board[i].author = a /\ \A j \in (i+1)..Len(board) : board[j].author # a]

\* C15: findTrigger is null without an upstream message; it is the most
\* recently appended upstream message when the agent has no output in the
\* board; it is the agent's own most recent output when it has output and
\* iterations left; a non-null result is always a message of the board.
C15_TriggerSelection ==
  \A a \in AgentName :
    LET t == findTrigger(a, board, blackboard, iterations)
        hasUpstream == \E m \in BoardMessages : m.kind = UpstreamKind(a)
        hasOutput == \E m \in BoardMessages : m.author = a
    IN  /\ ~hasUpstream => t = NoMsg
        /\ (hasUpstream /\ ~hasOutput) => t = LastOfKind(UpstreamKind(a))
        /\ (hasOutput /\ iterations[a] < maxIterations[a]) => t = LastOfAuthor(a)
        /\ t # NoMsg => t \in BoardMessages

C15_Witness ==
  /\ pc = "agent"
  /\ Len(AuthoredBy("frontend")) = 2
  /\ iterations["frontend"] = 2
  /\ findTrigger("frontend", board, blackboard, iterations) = LastOfAuthor("frontend")

\* Position of an agent in the order uiux, frontend, backend.
OrderOf(a) == IF a = "uiux" THEN 1 ELSE IF a = "frontend" THEN 2 ELSE 3

\* C16: within a cycle the acts happen in the order uiux, frontend,
\* backend, each agent at most once (so at most 3 per cycle), and the
\* board holds their messages in that order; when uiux is evaluated in a
\* cycle no act of that cycle has happened yet, so the messages frontend
\* and backend append in cycle n are all newer than uiux's trigger of
\* cycle n.
C16_FixedOrder ==
  /\ \A i, j \in 1..Len(acts) :
       i < j => /\ acts[i].cycle <= acts[j].cycle
                /\ acts[i].cycle = acts[j].cycle =>
                     OrderOf(acts[i].agent) < OrderOf(acts[j].agent)
  /\ \A c \in 1..MAX_GLOBAL_CYCLES :
       Cardinality({i \in 1..Len(acts) : acts[i].cycle = c}) <= 3
  /\ \A i \in 1..Len(acts) :
       i + 1 <= Len(board) => board[i + 1].author = acts[i].agent
  /\ (pc = "agent" /\ agentIdx = 1) => ~ActedIn(cycle)
  /\ \A i, j \in 1..Len(acts) :
       (acts[i].agent = "uiux" /\ acts[j].agent # "uiux"
          /\ acts[j].cycle = acts[i].cycle /\ j + 1 <= Len(board))
       => acts[i].trigger < board[j + 1].id

C16_Witness ==
  /\ Len(board) = 7
  /\ pc = "agent"
  /\ cycle = 2
  /\ agentIdx = 4

\* C17: the step in which an act resolves changes neither the board, the
\* blackboard nor any iteration count and yields one message authored by
\* the acting agent with that agent's output kind; in every board
\* uiux-spec, frontend-plan and backend-plan messages are authored by
\* uiux, frontend and backend and feature-request messages by user.
C17_ActFrame ==
  /\ [][ (inflight # {} /\ nextId' # nextId) =>
           /\ board' = board
           /\ blackboard' = blackboard
           /\ iterations' = iterations
           /\ \E call \in inflight :
                /\ newMessage'.author = call.agent
                /\ newMessage'.kind =
                     (IF call.agent = "uiux" THEN "uiux-spec"
                      ELSE IF call.agent = "frontend" THEN "frontend-plan"
                      ELSE "backend-plan")
                /\ newMessage'.id = nextId
       ]_vars
  /\ [](\A m \in BoardMessages :
          /\ m.kind = "feature-request" <=> m.author = "user"
          /\ m.kind = "uiux-spec" <=> m.author = "uiux"
          /\ m.kind = "frontend-plan" <=> m.author = "frontend"
          /\ m.kind = "backend-plan" <=> m.author = "backend")

C17_Witness ==
  /\ pc = "push"
  /\ newMessage.author = "backend"
  /\ newMessage.kind = "backend-plan"

\* C18 (as claimed): whenever two successive states have the same board
\* and the same blackboard, every agent's findTrigger gives the same
\* result in both.
C18_DeterminedByBoard ==
  [][ (board' = board /\ blackboard' = blackboard) =>
        \A a \in AgentName :
          findTrigger(a, board', blackboard', iterations') =
            findTrigger(a, board, blackboard, iterations)
    ]_vars

\* All iteration-count assignments within the budgets.
CountAssignments == [AgentName -> 0..MAX_AGENT_ITERATIONS]

\* C18 (amended): an agent's findTrigger result is determined by the
\* board, the blackboard and that agent's own iteration count: the other
\* agents' counts do not influence it; and a step that evaluates a
\* trigger without starting an act changes nothing but the loop position.
C18_DeterminedByBoardAndOwnCount ==
  /\ [](\A a \in AgentName : \A it \in CountAssignments :
          it[a] = iterations[a] =>
            findTrigger(a, board, blackboard, it) =
              findTrigger(a, board, blackboard, iterations))
  /\ [][ (pc = "agent" /\ pc' = "agent" /\ agentIdx' = agentIdx + 1) =>
           UNCHANGED <<run, nextId, iterations, board, blackboard, cycle,
                       idleCycles, progressedThisCycle, inflight, newMessage,
                       acts>>
       ]_vars

C18_Witness ==
  /\ pc = "await"
  /\ iterations["uiux"] = 3
  /\ iterations["backend"] = 2
  /\ Len(Authored(board, "backend", "backend-plan")) = 2
  /\ findTrigger("backend", board, blackboard, iterations) # NoMsg

\* C19: every agent's findTrigger, and the feature request act looks up,
\* is the same with the real blackboard as with an empty blackboard (where
\* the board is scanned instead).
C19_BlackboardIsCache ==
  /\ \A a \in AgentName :
       findTrigger(a, board, blackboard, iterations) =
         findTrigger(a, board, EmptyBlackboard, iterations)
  /\ actFeature(board, blackboard) = actFeature(board, EmptyBlackboard)

C19_Witness ==
  /\ pc = "agent"
  /\ agentIdx = 2
  /\ blackboard.uiuxSpec # NoMsg
  /\ Len(Authored(board, "frontend", "frontend-plan")) = 0
  /\ findTrigger("frontend", board, blackboard, iterations) = blackboard.uiuxSpec

\* C20: within a run every step leaves the board unchanged or appends
\* exactly one message at its end; the messages already in the board keep
\* their position and their fields.
C20_AppendOnly ==
  [][ pc # "stopped" =>
        \/ board' = board
        \/ /\ Len(board') = Len(board) + 1
           /\ \A i \in 1..Len(board) : board'[i] = board[i]
    ]_vars

C20_Witness ==
  pc = "update" /\ Len(board) = 5

\* The trimmed first non-blank line of c, read off c directly: it starts at
\* the first non-space character and ends at the last non-space character
\* before the next line break.
TrimmedFirstLine(c) ==
  LET nonSpace == {i \in 1..Len(c) : c[i] \notin {" ", "\n"}}
  IN  IF nonSpace = {} THEN <<>>
      ELSE LET first == MinOf(nonSpace)
               breaks == {i \in first..Len(c) : c[i] = "\n"}
               lineEnd == IF breaks = {} THEN Len(c) ELSE MinOf(breaks) - 1
               last == MaxOf({i \in nonSpace : i <= lineEnd})
           IN  SubSeq(c, first, last)

\* C12 (as claimed): for every content and every maxLength, a trimmed first
\* non-blank line longer than maxLength is summarized as its first
\* maxLength-3 characters followed by "...", of total length maxLength; a
\* line that is not longer is returned as it is.
C12_TruncationAnyMaxLength ==
  pc = "summarized" =>
    LET line == TrimmedFirstLine(text)
    IN  IF Len(line) > maxLength
        THEN /\ summary = SubSeq(line, 1, maxLength - 3) \o <<".", ".", ".">>
             /\ Len(summary) = maxLength
        ELSE summary = line

\* C12 (amended): the truncation statement holds for every maxLength >= 3;
\* for every maxLength a line that is not longer than maxLength is returned
\* as it is.
C12_TruncationFromThree ==
  pc = "summarized" =>
    LET line == TrimmedFirstLine(text)
    IN  /\ (Len(line) > maxLength /\ maxLength >= 3) =>
             /\ summary = SubSeq(line, 1, maxLength - 3) \o <<".", ".", ".">>
             /\ Len(summary) = maxLength
        /\ Len(line) <= maxLength => summary = line

C12_Witness ==
  /\ pc = "summarized"
  /\ maxLength = 4
  /\ text = <<"\n", "a", "b", "a", "b", "a">>
  /\ summary = <<"a", ".", ".", ".">>

\* C11: the step in which main (src/index.ts) reads a request that is empty
\* after trimming creates no board and no message, consumes no id, starts
\* no run and no cycle and changes no agent state; main is back at its
\* prompt.
C11_EmptyRequestRejected ==
  [][ (pc = "main" /\ \A i \in 1..Len(input') : input'[i] \in {" ", "\n"}) =>
        /\ board' = <<>>
        /\ nextId' = nextId
        /\ run' = run
        /\ cycle' = cycle
        /\ acts' = acts
        /\ iterations' = iterations
        /\ inflight' = {}
        /\ pc' = "main"
    ]_vars

C11_Witness ==
  /\ pc = "main"
  /\ input = <<" ", " ">>
  /\ run = 1
  /\ nextId = 5
  /\ board = <<>>

\* C21: with budget 3, idle threshold 3 and MAX_GLOBAL_CYCLES 20 no run gets
\* past cycle 6, and a run that reaches its stopping condition got there
\* through the idle-stop break (an idle cycle with idleCycles = 3), never
\* through the for loop running out at cycle 20.
C21_NeverBudgetExhausted ==
  /\ pc \in {"for_test", "agent", "await", "push", "update", "sleep",
             "stopped", "aborted"} => cycle <= 6
  /\ pc = "stopped" =>
       /\ ~progressedThisCycle
       /\ idleCycles >= IdleThreshold
       /\ cycle < MAX_GLOBAL_CYCLES

C21_Witness ==
  pc = "stopped" /\ cycle = 6 /\ idleCycles = 3 /\ ~progressedThisCycle

\* Ids of the uiux-spec messages of the board, and the first of them.
UiuxSpecIds == {m.id : m \in {x \in BoardMessages : x.kind = "uiux-spec"}}

\* The acts of agent a before position i of the act log.
EarlierActs(a, i) == {j \in 1..(i - 1) : acts[j].agent = a}

\* C22: the first act of frontend and of backend is triggered by the first
\* uiux-spec of the run; each later act of a consumer is triggered by the
\* message its own previous act produced; so no consumer act is ever
\* triggered by the second or third uiux-spec.  (Stated while the run's
\* board exists, i.e. until runMultiAgentPipeline has returned.)
C22_ConsumersIgnoreRevisions ==
  \A i \in 1..Len(acts) :
    (pc # "main" /\ acts[i].agent \in {"frontend", "backend"}) =>
      LET a == acts[i].agent
          earlier == EarlierActs(a, i)
      IN  /\ earlier = {} =>
                /\ UiuxSpecIds # {}
                /\ acts[i].trigger = MinOf(UiuxSpecIds)
          /\ earlier # {} =>
                /\ acts[i].trigger = board[MaxOf(earlier) + 1].id
                /\ board[MaxOf(earlier) + 1].author = a
                /\ acts[i].trigger \notin UiuxSpecIds

C22_Witness ==
  /\ Len(acts) = 9
  /\ Cardinality(UiuxSpecIds) = 3
  /\ acts[9].agent = "backend"
  /\ acts[9].trigger = board[7].id
  /\ acts[3].trigger = board[2].id

\* C23: in the pipeline of src/index.ts a run never makes more than two
\* passes of the while loop, and when it has finished it has made exactly
\* two, the board is feature-request, uiux-spec, frontend-plan,
\* backend-plan, and uiux, frontend and backend have each acted exactly
\* once, all in the first pass.
C23_SimpleTwoPasses ==
  /\ pc \in {"while_test", "agent", "await", "push", "stopped", "aborted"} =>
       cycle <= 2
  /\ (pc = "agent" /\ cycle = 2) => Len(acts) = 3
  /\ pc = "stopped" =>
       /\ cycle = 2
       /\ Len(board) = 4
       /\ [i \in 1..4 |-> board[i].kind] =
            <<"feature-request", "uiux-spec", "frontend-plan", "backend-plan">>
       /\ [i \in 1..3 |-> acts[i].agent] = <<"uiux", "frontend", "backend">>
       /\ Len(acts) = 3
       /\ \A i \in 1..3 : acts[i].cycle = 1

C23_Witness ==
  /\ pc = "stopped"
  /\ cycle = 2
  /\ Len(board) = 4
  /\ Len(input) > 0

====
